---- MODULE Spec2Model ----
(***************************************************************************)
(* A model of parsl's DynamicFileList (data_provider/dynamic_files.py)     *)
(* together with the DataFuture it wraps (app/futures.py).                 *)
(*                                                                         *)
(* Python objects live in a heap of DynamicFile cells, addressed by ids,   *)
(* because the list, its sub-lists and the files_done map share them by    *)
(* reference.  Every handler is an operator from a program state (a        *)
(* record) to a program state; an exception is the field err, and a        *)
(* handler that raised leaves the state exactly as the code had left it    *)
(* at the raise.                                                           *)
(***************************************************************************)
EXTENDS Integers, Sequences, FiniteSets, TLC

VARIABLES heap, lists, task, nops, lastOp, created

vars == <<heap, lists, task, nops, lastOp, created>>

(* ------------------------------- bounds ------------------------------- *)
\* the longest list, and so the largest index plus one, that is exercised
MaxLen == 3

\* the number of operations of one behaviour
MaxOps == 4

Names == {"a", "b"}

\* lists[Main] is the DynamicFileList; the others are its sub-lists
Main == 1

(* ----------------------------- file objects --------------------------- *)
\* what a DynamicFile's file_obj can be: None, a File, a DataFuture or
\* (after set() was handed a wrapper) another DynamicFile
NoneObj == [k |-> "None", name |-> "-", ref |-> 0, st |-> "-", par |-> "-", dfk |-> FALSE]

FileObj(n) == [k |-> "File", name |-> n, ref |-> 0, st |-> "-", par |-> "-", dfk |-> FALSE]

DynObj(id) == [k |-> "Dyn", name |-> "-", ref |-> id, st |-> "-", par |-> "-", dfk |-> FALSE]

\* a parent_callback that does not look at the parent's exception
DataFutureCallbackOk(taskState) == IF taskState = "pending" THEN "pending" ELSE "ok"

\* Future.add_done_callback on a future that is already resolved runs the
\* callback at once; DataFuture.parent_callback copies the outcome
DataFutureCallback(taskState) ==
    IF taskState = "pending" THEN "pending"
    ELSE IF taskState = "err" THEN "err" ELSE "ok"

\* DataFuture.__init__(fut, file_obj, dfk, tid=None, app_fut=None): dfk is a
\* required parameter, and file_obj must be a File
DataFutureInit(taskState, fo, dfkGiven) ==
    IF ~dfkGiven THEN [err |-> "TypeError", v |-> NoneObj]
    ELSE IF fo.k # "File" THEN [err |-> "TypeError", v |-> NoneObj]
    ELSE [err |-> "none",
          v |-> [k |-> "DF", name |-> fo.name, ref |-> 0,
                 st |-> DataFutureCallback(taskState), par |-> "T", dfk |-> TRUE]]

\* the DataFuture(...) calls of dynamic_files.py pass fut, file_obj and tid only
ListMakesDataFuture(taskState, fo) == DataFutureInit(taskState, fo, FALSE)

(* ------------------------------- the heap ------------------------------ *)
\* heap is the sequence of the DynamicFile objects that exist; an object is
\* known by its place in it
NoSlice == [start |-> -1, stop |-> -1]

(* files_done is a dict from file names (or None) to the DynamicFile whose
   bound method done it stores *)
EmptyDict == [x \in {} |-> 0]

DictHas(d, key) == key \in DOMAIN d

DictSet(d, key, val) == [x \in (DOMAIN d) \cup {key} |-> IF x = key THEN val ELSE d[x]]

DictDel(d, key) == [x \in (DOMAIN d) \ {key} |-> d[x]]

\* DynamicFileList.__init__
NewList == [items |-> <<>>, files_done |-> EmptyDict, last_idx |-> -1, parent |-> "None",
            dataflow |-> FALSE, inhibited |-> FALSE, sub_callbacks |-> <<>>,
            in_callback |-> FALSE, fstate |-> "pending", slice |-> NoSlice]

Raise(s, e) == [s EXCEPT !.err = e]

Failed(s) == s.err # "none"

\* Python's list indexing: a negative index counts from the end
PyIndex(key, len) == IF key < 0 THEN key + len ELSE key

PyInRange(key, len) == PyIndex(key, len) >= 0 /\ PyIndex(key, len) < len

Max(a, b) == IF a > b THEN a ELSE b

Min(a, b) == IF a < b THEN a ELSE b

(* --------------------------- DynamicFile ------------------------------ *)
\* DynamicFile.filepath: file_obj.filepath, whatever file_obj is (a File and
\* a DataFuture answer with the file's name, a DynamicFile asks its own
\* file_obj, None has no such attribute).  Files are named by bare names, so
\* a File's filename and filepath are the same string.
RECURSIVE Filepath(_, _)
Filepath(h, id) ==
    LET fo == h[id].fo IN
    IF fo.k = "None" THEN [err |-> "AttributeError", v |-> "None"]
    ELSE IF fo.k = "Dyn" THEN Filepath(h, fo.ref)
    ELSE [err |-> "none", v |-> fo.name]

\* DynamicFile.filename
Filename(h, id) ==
    IF h[id].fo.k = "None" THEN [err |-> "none", v |-> "None"]
    ELSE Filepath(h, id)

\* DataFuture.done (Future.done): resolved either way
DataFutureDone(fo) == fo.st # "pending"

\* DynamicFile.done
DynDone(h, id) == IF h[id].is_df THEN DataFutureDone(h[id].fo) ELSE TRUE

\* DynamicFileList.done
ListDone(s, l) ==
    \A key \in DOMAIN s.lists[l].files_done : DynDone(s.heap, s.lists[l].files_done[key])

\* DynamicFileList.result
ListResult(s, l) == "self"

\* DynamicFileList.exception
ListException(s, l) == "None"

\* DynamicFile.exception
DynException(h, id) == "None"

\* DynamicFile.parent_callback, run when the owning list (a Future) resolves:
\* the list's exception() answers None, so the success branch runs; it sets
\* file_obj.timestamp, calls parent.dataflow.register_as_output and resolves
\* the wrapper.  An exception inside a done-callback is logged and dropped by
\* concurrent.futures, and the wrapper then stays pending.
DynParentCallback(s, l, cell) ==
    IF cell.fstate # "pending" THEN cell
    ELSE IF ListException(s, l) # "None" THEN [cell EXCEPT !.fstate = "err"]
    ELSE IF cell.fo.k \in {"File", "DF"} /\ s.lists[l].dataflow
         THEN [cell EXCEPT !.fstate = "ok"]
         ELSE cell

\* DynamicFileList.wrap / DynamicFile.__init__
Wrap(s, l, fo) ==
    IF Failed(s) THEN [s |-> s, id |-> 0]
    ELSE LET id == Len(s.heap) + 1
             c0 == [fo |-> fo, is_df |-> (fo.k = "DF"),
                    empty |-> (fo.k = "None"), staged |-> FALSE,
                    fstate |-> "pending", stageN |-> 0, owner |-> l]
             c1 == IF s.lists[l].fstate = "pending" THEN c0 ELSE DynParentCallback(s, l, c0)
         IN [s |-> [s EXCEPT !.heap = Append(@, c1)], id |-> id]

\* DynamicFileList.add_done_func
AddDoneFunc(s, l, name, id) ==
    [s EXCEPT !.lists[l].files_done = DictSet(@, name, id)]

\* DynamicFile.set
Set(s, id, fo) ==
    IF Failed(s) THEN s
    ELSE LET s1 == [s EXCEPT !.heap[id].fo = fo,
                             !.heap[id].empty = FALSE,
                             !.heap[id].is_df = (fo.k = "DF")]
             nm == IF fo.k = "Dyn" THEN Filename(s1.heap, fo.ref)
                   ELSE [err |-> "none", v |-> fo.name]
         IN IF nm.err # "none" THEN Raise(s1, nm.err)
            ELSE AddDoneFunc(s1, s1.heap[id].owner, nm.v, id)

\* DynamicFile.convert_to_df
ConvertToDf(s, l, id) ==
    IF Failed(s) THEN s
    ELSE IF s.heap[id].is_df THEN s
    ELSE LET r == ListMakesDataFuture(s.task, s.heap[id].fo) IN
         IF r.err # "none" THEN Raise(s, r.err)
         ELSE [s EXCEPT !.heap[id].fo = r.v, !.heap[id].is_df = TRUE]

(* --------------------------- DynamicFileList -------------------------- *)
\* the loop body of _expand, n times: super().append(self.wrap(None))
RECURSIVE AppendEmpties(_, _, _)
AppendEmpties(s, l, n) ==
    IF Failed(s) \/ n <= 0 THEN s
    ELSE LET Rest(w) ==
                 IF Failed(w.s) THEN w.s
                 ELSE AppendEmpties([w.s EXCEPT !.lists[l].items = Append(@, w.id)], l, n - 1)
         IN Rest(Wrap(s, l, NoneObj))

\* an _expand whose loop runs range(idx - len(self)): one slot short
ExpandShort(s, l, idx) == AppendEmpties(s, l, idx - Len(s.lists[l].items))

\* DynamicFileList._expand
Expand(s, l, idx) == AppendEmpties(s, l, idx - Len(s.lists[l].items) + 1)

\* list.__getitem__ of the built-in list (super().__getitem__) with an int
RawGet(s, l, key) ==
    IF Failed(s) THEN [s |-> s, id |-> 0]
    ELSE IF ~PyInRange(key, Len(s.lists[l].items)) THEN [s |-> Raise(s, "IndexError"), id |-> 0]
    ELSE [s |-> s, id |-> s.lists[l].items[PyIndex(key, Len(s.lists[l].items)) + 1]]

\* DynamicFileList.__getitem__ with an int key
GetItem(s, l, key) ==
    IF Failed(s) THEN [s |-> s, id |-> 0]
    ELSE RawGet(IF key >= Len(s.lists[l].items) THEN Expand(s, l, key) ELSE s, l, key)

\* list[start:stop] of the built-in list (super().__getitem__ with a slice,
\* DynamicFileList.get_update); None is written PyNone
PyNone == -1

PySlice(items, sl) ==
    LET lo == IF sl.start = PyNone THEN 0 ELSE Min(sl.start, Len(items))
        hi == IF sl.stop = PyNone THEN Len(items) ELSE Min(sl.stop, Len(items))
    IN IF hi <= lo THEN <<>> ELSE SubSeq(items, lo + 1, hi)

GetUpdate(s, l, sl) == PySlice(s.lists[l].items, sl)

\* what stage_file does once a slot is eligible and staging is not inhibited:
\* a clean copy of the file replaces the DataFuture's file, data_manager.stage_out
\* and replace_task_stage_out are called, and a returned stage-out future becomes
\* the DataFuture's parent attribute.  _staged_out is not written.
StageOut(s, l, id) ==
    [s EXCEPT !.heap[id].stageN = @ + 1,
              !.heap[id].fo.par = IF s.so THEN "SO" ELSE @]

RECURSIVE StageFile(_, _, _)
RECURSIVE CallCallbacks(_, _)
RECURSIVE Extend(_, _, _)

\* DynamicFileList.clear
Clear(s, l) ==
    IF Failed(s) THEN s
    ELSE [s EXCEPT !.lists[l].files_done = EmptyDict,
                   !.lists[l].last_idx = -1,
                   !.lists[l].items = <<>>,
                   !.lists[l].sub_callbacks = <<>>]

\* the sequence of DynamicFile objects handed to extend by a sub-list
AsObjects(ids) == [i \in 1..Len(ids) |-> DynObj(ids[i])]

\* DynamicFileSubList.callback
ViewCallback(s, v) ==
    LET Refill(s1) ==
            IF Failed(s1) THEN s1
            ELSE Extend(s1, v, AsObjects(GetUpdate(s1, Main, s1.lists[v].slice)))
    IN Refill(Clear(s, v))

\* for cb in self._sub_callbacks: cb()
RECURSIVE RunCallbacks(_, _)
RunCallbacks(s, cbs) ==
    IF Failed(s) \/ cbs = <<>> THEN s
    ELSE RunCallbacks(ViewCallback(s, Head(cbs)), Tail(cbs))

\* DynamicFileList._call_callbacks
CallCallbacks(s, l) ==
    IF Failed(s) THEN s
    ELSE IF s.lists[l].in_callback THEN s
    ELSE LET s1 == [s EXCEPT !.lists[l].in_callback = TRUE]
             Leave(s2) == IF Failed(s2) THEN s2 ELSE [s2 EXCEPT !.lists[l].in_callback = FALSE]
         IN Leave(RunCallbacks(s1, s1.lists[l].sub_callbacks))

\* a stage_file that does not ask whether the task is attached
StageFileNoParent(s, l, idx) ==
    IF Failed(s) THEN s
    ELSE IF ~s.lists[l].dataflow THEN s
    ELSE LET Stage(g) ==
                 IF Failed(g.s) THEN g.s
                 ELSE LET out == g.s.heap[g.id] IN
                      IF out.empty \/ out.staged THEN g.s
                      ELSE IF ~out.is_df THEN g.s
                      ELSE CallCallbacks(IF g.s.lists[l].inhibited THEN g.s
                                         ELSE StageOut(g.s, l, g.id), l)
         IN Stage(GetItem(s, l, idx))

\* DynamicFileList.stage_file
StageFile(s, l, idx) ==
    IF Failed(s) THEN s
    ELSE IF ~s.lists[l].dataflow THEN s
    ELSE LET Stage(g) ==
                 IF Failed(g.s) THEN g.s
                 ELSE LET out == g.s.heap[g.id] IN
                      IF out.empty \/ out.staged THEN g.s
                      ELSE IF g.s.lists[l].parent = "None" \/ ~out.is_df THEN g.s
                      ELSE CallCallbacks(IF g.s.lists[l].inhibited THEN g.s
                                         ELSE StageOut(g.s, l, g.id), l)
         IN Stage(GetItem(s, l, idx))

\* the normalisation append, extend and insert share: a File becomes a
\* DataFuture when the list has a parent, and the value is wrapped
Normalise(s, l, obj) ==
    IF Failed(s) THEN [s |-> s, id |-> 0]
    ELSE IF obj.k = "Dyn" THEN [s |-> s, id |-> obj.ref]
    ELSE IF s.lists[l].parent # "None" /\ obj.k = "File"
         THEN LET r == ListMakesDataFuture(s.task, obj) IN
              IF r.err # "none" THEN [s |-> Raise(s, r.err), id |-> 0]
              ELSE Wrap(s, l, r.v)
         ELSE Wrap(s, l, obj)

\* files_done[x.filename] = y.done
RegisterDone(s, l, nameOf, id) ==
    IF Failed(s) THEN s
    ELSE LET nm == Filename(s.heap, nameOf) IN
         IF nm.err # "none" THEN Raise(s, nm.err)
         ELSE [s EXCEPT !.lists[l].files_done = DictSet(@, nm.v, id)]

\* DynamicFileList.append
AppendOp(s, l, obj) ==
    LET \* self._last_idx += 1; self.stage_file(self._last_idx); self._call_callbacks()
        Finish(s2, at) ==
            IF Failed(s2) THEN s2
            ELSE CallCallbacks(StageFile([s2 EXCEPT !.lists[l].last_idx = @ + 1], l, at), l)
        \* self.files_done[file_obj.filename] = super().__getitem__(self._last_idx + 1).done
        Register(r2, id, at) == Finish(RegisterDone(r2.s, l, id, r2.id), at)
        \* self[self._last_idx + 1].set(file_obj), read with the built-in __getitem__
        Fill(r, id) == IF Failed(r.s) THEN r.s ELSE Set(r.s, r.id, DynObj(id))
        Place(w) ==
            IF Failed(w.s) THEN w.s
            ELSE LET L == w.s.lists[l]
                     at == L.last_idx + 1
                 IN Register(RawGet(IF L.last_idx = Len(L.items) - 1
                                    THEN [w.s EXCEPT !.lists[l].items = Append(@, w.id)]
                                    ELSE Fill(RawGet(w.s, l, at), w.id),
                                    l, at),
                             w.id, at)
    IN Place(Normalise(s, l, obj))

\* the first loop of extend: normalise each item and register its done
RECURSIVE ExtendItems(_, _, _, _)
ExtendItems(s, l, its, acc) ==
    IF Failed(s) \/ its = <<>> THEN [s |-> s, ids |-> acc]
    ELSE LET Rest(w) ==
                 ExtendItems(RegisterDone(w.s, l, w.id, w.id), l, Tail(its), Append(acc, w.id))
         IN Rest(Normalise(s, l, Head(its)))

\* for i in range(len(items)): self._last_idx += 1; self.stage_file(self._last_idx)
RECURSIVE StageNew(_, _, _)
StageNew(s, l, n) ==
    IF Failed(s) \/ n <= 0 THEN s
    ELSE LET s1 == [s EXCEPT !.lists[l].last_idx = @ + 1] IN
         StageNew(StageFile(s1, l, s1.lists[l].last_idx), l, n - 1)

\* for item in items: fill the next slot with item
RECURSIVE FillSlots(_, _, _)
FillSlots(s, l, ids) ==
    IF Failed(s) \/ ids = <<>> THEN s
    ELSE LET s1 == [s EXCEPT !.lists[l].last_idx = @ + 1]
             k == s1.lists[l].last_idx
             \* self[self._last_idx].set(item)
             Put(g) == Set(g.s, g.id, DynObj(Head(ids)))
             \* self.files_done[item.filename] = super().__getitem__(self._last_idx).done
             Register(r) == RegisterDone(r.s, l, Head(ids), r.id)
         IN FillSlots(StageFile(Register(RawGet(Put(GetItem(s1, l, k)), l, k)), l, k),
                      l, Tail(ids))

\* DynamicFileList.extend
Extend(s, l, its) ==
    LET \* super().extend([self.wrap(None)] * abs(diff)): one wrapper, repeated
        Pad(w, diff) ==
            IF diff < 0 /\ ~Failed(w.s)
            THEN [w.s EXCEPT !.lists[l].items = @ \o [i \in 1..(0 - diff) |-> w.id]]
            ELSE w.s
        Grow(e) ==
            IF Failed(e.s) THEN e.s
            ELSE LET L == e.s.lists[l]
                     n == Len(e.ids)
                     diff == Len(L.items) - 1 - L.last_idx - n
                 IN IF L.last_idx = Len(L.items) - 1
                    THEN CallCallbacks(
                           StageNew([e.s EXCEPT !.lists[l].items = @ \o e.ids], l, n), l)
                    ELSE CallCallbacks(
                           FillSlots(Pad(IF diff < 0 THEN Wrap(e.s, l, NoneObj)
                                         ELSE [s |-> e.s, id |-> 0], diff),
                                     l, e.ids), l)
    IN Grow(ExtendItems(s, l, its, <<>>))

\* list.insert of the built-in list, for an index that is not negative
PyInsert(items, index, id) ==
    LET at == Min(index, Len(items)) IN
    SubSeq(items, 1, at) \o <<id>> \o SubSeq(items, at + 1, Len(items))

\* DynamicFileList.insert
InsertOp(s, l, index, obj) ==
    IF index > s.lists[l].last_idx THEN Raise(s, "ValueError")
    ELSE LET \* self._last_idx += 1; self._call_callbacks()
             Finish(s3) ==
                 IF Failed(s3) THEN s3
                 ELSE CallCallbacks([s3 EXCEPT !.lists[l].last_idx = @ + 1], l)
             \* super().insert(__index, __object); self.stage_file(__index)
             Place(s1, id) ==
                 IF Failed(s1) THEN s1
                 ELSE Finish(StageFile([s1 EXCEPT !.lists[l].items = PyInsert(@, index, id)],
                                       l, index))
             Register(w) == Place(RegisterDone(w.s, l, w.id, w.id), w.id)
         IN Register(Normalise(s, l, obj))

\* list.remove of the built-in list: drops the first element that is the value
PyRemove(items, id) ==
    LET at == CHOOSE i \in 1..Len(items) :
                  items[i] = id /\ \A j \in 1..(i - 1) : items[j] # id
    IN SubSeq(items, 1, at - 1) \o SubSeq(items, at + 1, Len(items))

\* del self.files_done[x.filename]
UnregisterDone(s, l, id) ==
    IF Failed(s) THEN s
    ELSE LET nm == Filename(s.heap, id) IN
         IF nm.err # "none" THEN Raise(s, nm.err)
         ELSE IF ~DictHas(s.lists[l].files_done, nm.v) THEN Raise(s, "KeyError")
         ELSE [s EXCEPT !.lists[l].files_done = DictDel(@, nm.v)]

\* DynamicFileList.remove, handed a DynamicFile
RemoveOp(s, l, id) ==
    LET Drop(s1) ==
            IF Failed(s1) THEN s1
            ELSE IF \A i \in 1..Len(s1.lists[l].items) : s1.lists[l].items[i] # id
                 THEN Raise(s1, "ValueError")
            ELSE CallCallbacks([s1 EXCEPT !.lists[l].items = PyRemove(@, id),
                                          !.lists[l].last_idx = @ - 1], l)
    IN Drop(UnregisterDone(s, l, id))

\* list.pop of the built-in list
PyPop(items, index) ==
    LET at == PyIndex(index, Len(items)) + 1 IN
    SubSeq(items, 1, at - 1) \o SubSeq(items, at + 1, Len(items))

\* DynamicFileList.pop; the value returned is left in field ret
PopOp(s, l, index) ==
    LET L == s.lists[l]
        at == IF index = -1 THEN L.last_idx ELSE index
    IN IF index # -1 /\ index > L.last_idx THEN Raise(s, "IndexError")
       ELSE IF ~PyInRange(at, Len(L.items)) THEN Raise(s, "IndexError")
       ELSE LET id == L.items[PyIndex(at, Len(L.items)) + 1]
                s1 == [s EXCEPT !.lists[l].items = PyPop(@, at)]
                Finish(s2) ==
                    IF Failed(s2) THEN s2
                    ELSE [CallCallbacks([s2 EXCEPT !.lists[l].last_idx = @ - 1], l)
                             EXCEPT !.ret = s.heap[id].fo]
            IN Finish(UnregisterDone(s1, l, id))

\* DynamicFileList.__setitem__
SetItemOp(s, l, key, value) ==
    LET \* self._last_idx = max(self._last_idx, key); self._call_callbacks();
        \* self.stage_file(key)
        Finish(s3) ==
            IF Failed(s3) THEN s3
            ELSE StageFile(
                   CallCallbacks([s3 EXCEPT !.lists[l].last_idx = Max(@, key)], l), l, key)
        \* if self[key].empty: ... self[key].set(value);
        \* self.files_done[self[key].filename] = self[key].done
        Store(s1, id) ==
            IF ~s1.heap[id].empty THEN Raise(s1, "ValueError")
            ELSE LET r == IF s1.lists[l].parent # "None" /\ value.k = "File"
                          THEN ListMakesDataFuture(s1.task, value)
                          ELSE [err |-> "none", v |-> value]
                 IN IF r.err # "none" THEN Raise(s1, r.err)
                    ELSE Finish(RegisterDone(Set(s1, id, r.v), l, id, id))
        \* if self[key].filename in self.files_done: del self.files_done[...]
        Forget(g) ==
            IF Failed(g.s) THEN g.s
            ELSE LET nm == Filename(g.s.heap, g.id) IN
                 IF nm.err # "none" THEN Raise(g.s, nm.err)
                 ELSE Store(IF DictHas(g.s.lists[l].files_done, nm.v)
                            THEN [g.s EXCEPT !.lists[l].files_done = DictDel(@, nm.v)]
                            ELSE g.s,
                            g.id)
    IN Forget(GetItem(s, l, key))

\* for i in range(...): self.append(self.wrap(None)), n times
RECURSIVE AppendWrappedNone(_, _, _)
AppendWrappedNone(s, l, n) ==
    IF Failed(s) \/ n <= 0 THEN s
    ELSE LET Rest(w) == AppendWrappedNone(AppendOp(w.s, l, DynObj(w.id)), l, n - 1)
         IN Rest(Wrap(s, l, NoneObj))

\* DynamicFileSubList.__init__; the sub-list is the last of s.lists
NewView(s, l, sl) ==
    IF Failed(s) THEN s
    ELSE LET v == Len(s.lists) + 1
             s1 == [s EXCEPT !.lists = Append(@, NewList)]
             Attach(s2) ==
                 IF Failed(s2) THEN [s2 EXCEPT !.lists = SubSeq(@, 1, v - 1)]
                 ELSE [s2 EXCEPT !.lists[v].parent = "List",
                                 !.lists[v].slice = sl,
                                 !.lists[l].sub_callbacks = Append(@, v)]
         IN Attach(Extend(s1, v, AsObjects(PySlice(s1.lists[l].items, sl))))

\* DynamicFileList.__getitem__ with a slice key
GetSlice(s, l, sl) ==
    LET len0 == Len(s.lists[l].items)
        \* if key.stop is not None and key.stop > len(self): ...
        Upper(s1) ==
            IF sl.stop # PyNone /\ sl.stop > Len(s1.lists[l].items)
            THEN AppendWrappedNone(s1, l, sl.stop - Len(s1.lists[l].items))
            ELSE s1
    IN NewView(Upper(IF sl.start # PyNone /\ sl.start >= len0
                     THEN AppendWrappedNone(s, l, sl.start + 1 - len0)
                     ELSE s),
               l, sl)

\* for idx in range(n): self.stage_file(idx), from index k on
RECURSIVE StageRange(_, _, _, _)
StageRange(s, l, k, n) ==
    IF Failed(s) \/ k >= n THEN s
    ELSE StageRange(StageFile(s, l, k), l, k + 1, n)

\* DynamicFileList.set_dataflow
SetDataflow(s, l, inh) ==
    StageRange([s EXCEPT !.lists[l].dataflow = TRUE, !.lists[l].inhibited = inh],
               l, 0, s.lists[l].last_idx + 1)

\* DynamicFileList.parent_callback, and the done-callbacks of the list that
\* resolving it runs: the parent_callback of every DynamicFile it wrapped
ListParentCallback(s, l) ==
    LET s1 == [s EXCEPT !.lists[l].fstate = IF s.task = "err" THEN "err" ELSE "ok"] IN
    [s1 EXCEPT !.heap = [i \in 1..Len(s1.heap) |->
        IF s1.heap[i].owner = l
        THEN DynParentCallback(s1, l, s1.heap[i]) ELSE s1.heap[i]]]

\* for idx in range(n): self[idx].convert_to_df(); self.stage_file(idx)
RECURSIVE ConvertRange(_, _, _, _)
ConvertRange(s, l, k, n) ==
    IF Failed(s) \/ k >= n THEN s
    ELSE LET Rest(g) == ConvertRange(StageFile(ConvertToDf(g.s, l, g.id), l, k), l, k + 1, n)
         IN Rest(GetItem(s, l, k))

\* DynamicFileList.set_parent; add_done_callback on a resolved future runs
\* the callback at once
SetParent(s, l) ==
    IF s.lists[l].parent # "None" THEN Raise(s, "ValueError")
    ELSE LET s1 == [s EXCEPT !.lists[l].parent = "T"]
             s2 == IF s1.task = "pending" THEN s1 ELSE ListParentCallback(s1, l)
         IN CallCallbacks(ConvertRange(s2, l, 0, s.lists[l].last_idx + 1), l)

\* the producing task's future resolves (Future.set_result / set_exception)
\* and runs the callbacks registered on it: DataFuture.parent_callback of
\* every DataFuture chained to it, DynamicFileList.parent_callback of a list
\* whose parent it is
CompleteTask(s, outcome) ==
    LET s1 == [s EXCEPT !.task = outcome,
                        !.heap = [i \in 1..Len(s.heap) |->
                            IF s.heap[i].fo.k = "DF" /\ s.heap[i].fo.st = "pending"
                            THEN [s.heap[i] EXCEPT !.fo.st = DataFutureCallback(outcome)]
                            ELSE s.heap[i]]]
    IN IF s1.lists[Main].parent = "T" THEN ListParentCallback(s1, Main) ELSE s1

(* --------------------- objects no longer referenced -------------------- *)
\* the keys a files_done can hold, in a fixed order
KeyOrder == <<"None", "a", "b">>

\* what the lists refer to: their elements, then the owners of the done
\* methods in files_done
RECURSIVE DoneRefs(_, _)
DoneRefs(fd, keys) ==
    IF keys = <<>> THEN <<>>
    ELSE (IF Head(keys) \in DOMAIN fd THEN <<fd[Head(keys)]>> ELSE <<>>)
         \o DoneRefs(fd, Tail(keys))

RECURSIVE Roots(_, _)
Roots(ls, l) ==
    IF l > Len(ls) THEN <<>>
    ELSE ls[l].items \o DoneRefs(ls[l].files_done, KeyOrder) \o Roots(ls, l + 1)

\* the objects reachable from todo, each once, in the order they are met
RECURSIVE Visit(_, _, _)
Visit(h, todo, acc) ==
    IF todo = <<>> THEN acc
    ELSE LET id == Head(todo) IN
         IF \E j \in 1..Len(acc) : acc[j] = id THEN Visit(h, Tail(todo), acc)
         ELSE Visit(h, (IF h[id].fo.k = "Dyn" THEN <<h[id].fo.ref>> ELSE <<>>) \o Tail(todo),
                    Append(acc, id))

\* Python frees a DynamicFile that nothing refers to; the ones that remain
\* are numbered in the order the lists meet them
Collect(s) ==
    LET ord == Visit(s.heap, Roots(s.lists, 1), <<>>)
        Pos(id) == CHOOSE j \in 1..Len(ord) : ord[j] = id
    IN [s EXCEPT
          !.heap = [j \in 1..Len(ord) |->
                      IF s.heap[ord[j]].fo.k = "Dyn"
                      THEN [s.heap[ord[j]] EXCEPT !.fo.ref = Pos(@)]
                      ELSE s.heap[ord[j]]],
          !.lists = [l \in 1..Len(s.lists) |->
                      [s.lists[l] EXCEPT
                          !.items = [i \in 1..Len(@) |-> Pos(@[i])],
                          !.files_done = [key \in DOMAIN @ |-> Pos(@[key])]]]]

(* ------------------------------ the system ----------------------------- *)
\* the program state the handlers work on; so is whether data_manager.stage_out
\* answers this call's requests with a stage-out future or with None
State(so) == [heap |-> heap, lists |-> lists, task |-> task,
              err |-> "none", so |-> so, ret |-> NoneObj]

\* a DataFuture the caller built itself: DataFuture(task_future, File(n), dfk)
UserDataFuture(n) == DataFutureInit(task, FileObj(n), TRUE).v

\* the values handed to the list: a bare File and DataFutures, two of them
\* for the same file name
UserObjs == {FileObj("a"), UserDataFuture("a"), UserDataFuture("b")}

Batches == {<<FileObj("a"), UserDataFuture("b")>>,
            <<UserDataFuture("a"), UserDataFuture("b")>>}

Indices == 0..(MaxLen - 1)

\* list[:], list[:2], list[1:] and list[1:2]
Slices == [start : {PyNone, 1}, stop : {PyNone, 2}]

Fits(r) == \A l \in 1..Len(r.lists) : Len(r.lists[l].items) <= MaxLen

Commit(r, name, arg) ==
    /\ nops < MaxOps
    /\ Fits(r)
    /\ heap' = Collect(r).heap
    /\ lists' = Collect(r).lists
    /\ task' = r.task
    /\ nops' = nops + 1
    /\ lastOp' = [op |-> name, arg |-> arg, err |-> r.err,
                   len0 |-> Len(lists[Main].items)]
    \* the length each sub-list had when __getitem__ returned it
    /\ created' = IF Len(r.lists) > Len(lists)
                  THEN Append(created, Len(r.lists[Len(r.lists)].items))
                  ELSE created

Init ==
    /\ heap = <<>>
    /\ lists = <<NewList>>
    /\ task = "pending"
    /\ nops = 0
    /\ lastOp = [op |-> "init", arg |-> 0, err |-> "none", len0 |-> 0]
    /\ created = <<>>

DoAppend ==
    \E obj \in UserObjs, so \in BOOLEAN :
        Commit(AppendOp(State(so), Main, obj), "append", 0)

DoExtend ==
    \E its \in Batches, so \in BOOLEAN :
        Commit(Extend(State(so), Main, its), "extend", Len(its))

DoInsert ==
    \E i \in Indices, obj \in UserObjs, so \in BOOLEAN :
        Commit(InsertOp(State(so), Main, i, obj), "insert", i)

DoRemove ==
    \E i \in Indices :
        /\ i < Len(lists[Main].items)
        /\ Commit(RemoveOp(State(FALSE), Main, lists[Main].items[i + 1]), "remove", i)

DoPop ==
    \E i \in {-1} \cup Indices :
        Commit(PopOp(State(FALSE), Main, i), "pop", i)

DoSetItem ==
    \E i \in Indices, obj \in UserObjs, so \in BOOLEAN :
        Commit(SetItemOp(State(so), Main, i, obj), "setitem", i)

DoGetItem ==
    \E i \in Indices :
        Commit(GetItem(State(FALSE), Main, i).s, "getitem", i)

DoGetSlice ==
    \E sl \in Slices, so \in BOOLEAN :
        Commit(GetSlice(State(so), Main, sl), "getslice", 0)

DoSetDataflow ==
    \E inh \in BOOLEAN, so \in BOOLEAN :
        Commit(SetDataflow(State(so), Main, inh), "set_dataflow", 0)

DoSetParent ==
    \E so \in BOOLEAN :
        Commit(SetParent(State(so), Main), "set_parent", 0)

DoComplete ==
    \E outcome \in {"ok", "err"} :
        /\ task = "pending"
        /\ Commit(CompleteTask(State(FALSE), outcome), "complete", 0)

Next ==
    \/ DoAppend
    \/ DoExtend
    \/ DoInsert
    \/ DoRemove
    \/ DoPop
    \/ DoSetItem
    \/ DoGetItem
    \/ DoGetSlice
    \/ DoSetDataflow
    \/ DoSetParent
    \/ DoComplete

Spec == Init /\ [][Next]_vars

\* appends only, while the producing task runs and ends
NextAppend == DoAppend \/ DoComplete

SpecAppend == Init /\ [][NextAppend]_vars

\* filling the list and attaching the task to it
NextPromote == DoAppend \/ DoExtend \/ DoSetParent \/ DoComplete

SpecPromote == Init /\ [][NextPromote]_vars

\* the operations that can lead to staging
NextStaging ==
    DoAppend \/ DoExtend \/ DoInsert \/ DoSetItem \/ DoSetParent \/ DoSetDataflow

SpecStaging == Init /\ [][NextStaging]_vars

\* the list as a container, with its sub-lists
NextContainer ==
    \/ DoAppend
    \/ DoExtend
    \/ DoInsert
    \/ DoRemove
    \/ DoPop
    \/ DoSetItem
    \/ DoGetItem
    \/ DoGetSlice

SpecContainer == Init /\ [][NextContainer]_vars

\* index reads and index writes, before and after the task is attached
NextWrite == DoAppend \/ DoGetItem \/ DoSetItem \/ DoSetParent

SpecWrite == Init /\ [][NextWrite]_vars

\* a list with its sub-lists, the dataflow and the task attached, and the
\* task's completion
NextFailure ==
    DoAppend \/ DoExtend \/ DoGetSlice \/ DoSetParent \/ DoSetDataflow \/ DoComplete

SpecFailure == Init /\ [][NextFailure]_vars

(* The task's completion, one callback at a time.  Future.set_result and
   set_exception store the outcome under the future's lock and then call the
   registered callbacks one after the other on the completing thread, while
   the thread that owns the list goes on calling it.  add_done_callback takes
   the same lock: it either registers the callback, when the future is still
   pending, or runs it at once.  So the callbacks that are registered and
   not yet called are those of the DataFutures and of the list that are
   still pending; they are taken here in any order. *)
\* Future.set_result / set_exception on the task's future: the outcome is stored
DoResolve ==
    \E outcome \in {"ok", "err"} :
        /\ task = "pending"
        /\ Commit([State(FALSE) EXCEPT !.task = outcome], "resolve", 0)

\* DataFuture.parent_callback called for the DataFuture in heap cell id
InvokeDataFuture(s, id) == [s EXCEPT !.heap[id].fo.st = DataFutureCallback(s.task)]

\* the completing thread calls the next callback: the one of a DataFuture
\* (target its cell) or the list's (target 0)
DoInvoke ==
    /\ task # "pending"
    /\ \E target \in 0..Len(heap) :
          /\ IF target = 0
             THEN lists[Main].parent = "T" /\ lists[Main].fstate = "pending"
             ELSE heap[target].fo.k = "DF" /\ heap[target].fo.st = "pending"
          /\ heap' = (IF target = 0 THEN ListParentCallback(State(FALSE), Main)
                      ELSE InvokeDataFuture(State(FALSE), target)).heap
          /\ lists' = (IF target = 0 THEN ListParentCallback(State(FALSE), Main)
                       ELSE State(FALSE)).lists
          /\ lastOp' = [op |-> "invoke", arg |-> target, err |-> "none",
                         len0 |-> Len(lists[Main].items)]
    /\ UNCHANGED <<task, nops, created>>

\* a DataFuture the caller built while the task was running, handed to the
\* list now; its callback may not have been called yet
HeldDataFuture(n) == DataFutureInit("pending", FileObj(n), TRUE).v

DoAppendHeld ==
    \E n \in Names :
        Commit(AppendOp(State(FALSE), Main, HeldDataFuture(n)), "append_held", 0)

NextRace == DoAppend \/ DoAppendHeld \/ DoSetParent \/ DoResolve \/ DoInvoke

\* the completing thread runs to the end of the callbacks
SpecRace == Init /\ [][NextRace]_vars /\ WF_vars(DoInvoke)

(* ------------------------------ the claims ----------------------------- *)
Now == State(FALSE)

MainList == lists[Main]

\* the DynamicFile at Python index i of the list
SlotAt(i) == heap[MainList.items[i + 1]]

Positions == 0..(Len(MainList.items) - 1)

\* the failure the producing task resolved with
TaskFailure == IF task = "err" THEN "E" ELSE "None"

\* what waiting on the list shows of a failure: exception() is what a waiter
\* gets, and result() raises it when there is one
Surfaced(s, l) == IF ListException(s, l) = "None" THEN "None" ELSE "E"

\* C1: when the list has its producing task attached and holds the outputs
\* A and B, and the task resolves with failure E, waiting on the list
\* surfaces E and the DataFutures wrapped by the slots of A and B resolve
\* with E.
C1_FailureSurfaces ==
    (/\ MainList.parent = "T"
     /\ task = "err"
     /\ Len(MainList.items) >= 2
     /\ \A i \in Positions : SlotAt(i).is_df)
        => /\ Surfaced(Now, Main) = TaskFailure
           /\ \A i \in Positions : SlotAt(i).is_df => SlotAt(i).fo.st = "err"

\* whether the future a slot wraps has resolved successfully; a bare File
\* wraps no future
WrappedResolved(c) == c.fo.k = "DF" => c.fo.st = "ok"

\* C2: in every state reached by appends with no task failure, list.done()
\* is true exactly when the wrapped future of every slot has resolved
\* successfully.
C2_DoneIffAllResolved ==
    task # "err"
        => (ListDone(Now, Main) <=> \A i \in Positions : WrappedResolved(SlotAt(i)))

\* C3: data_manager.stage_out is invoked at most once for each slot.
C3_StagedAtMostOnce == \A id \in 1..Len(heap) : heap[id].stageN <= 1

\* the caller goes on after an exception
Recover(s) == [s EXCEPT !.err = "none"]

ParentThenDataflow(s, inh) == SetDataflow(Recover(SetParent(s, Main)), Main, inh)

DataflowThenParent(s, inh) == SetParent(Recover(SetDataflow(s, Main, inh)), Main)

\* C4: for a slot filled before the task and the dataflow are attached,
\* set_parent then set_dataflow and set_dataflow then set_parent invoke
\* stage_out the same number of times, and at most once.
C4_OrderIrrelevant ==
    (MainList.parent = "None" /\ ~MainList.dataflow)
        => \A inh \in BOOLEAN, so \in BOOLEAN : \A i \in Positions :
              ~SlotAt(i).empty
                 => LET id == MainList.items[i + 1]
                        pd == ParentThenDataflow(State(so), inh).heap[id].stageN
                        dp == DataflowThenParent(State(so), inh).heap[id].stageN
                    IN pd = dp /\ pd <= 1

\* C5: a slot filled by append(File) before the task is attached reports done
\* until set_parent; set_parent makes it wrap a DataFuture of the task, and
\* from then on its done() is true exactly when the task has resolved.
C5_PromotedTracksTask ==
    /\ MainList.parent = "None"
           => \A i \in Positions : SlotAt(i).fo.k = "File" => DynDone(heap, MainList.items[i + 1])
    /\ MainList.parent = "T"
           => \A i \in Positions :
                 /\ SlotAt(i).is_df
                 /\ DynDone(heap, MainList.items[i + 1]) <=> task # "pending"

\* the slots a mutating call has populated and that are still in the list
Populated == {i \in Positions : ~SlotAt(i).empty}

\* C6: _last_idx is the number of populated slots of the list minus one;
\* slots created by reads do not count.
C6_HighWaterMark == MainList.last_idx = Cardinality(Populated) - 1

\* what a DynamicFile holds: itself and, when its file_obj is another
\* DynamicFile, what that one holds; the same whatever the objects' places
RECURSIVE Content(_, _)
Content(h, id) ==
    IF h[id].fo.k = "Dyn"
    THEN <<[h[id] EXCEPT !.fo.ref = 0]>> \o Content(h, h[id].fo.ref)
    ELSE <<h[id]>>

\* C7: an index read list[i] with i >= len(list) makes the list i + 1 long
\* by adding i - len(list) + 1 new Empty slots, and leaves _last_idx,
\* files_done and every slot that was there unchanged.
C7_IndexReadFrame ==
    [][(lastOp'.op = "getitem" /\ lastOp'.arg >= Len(lists[Main].items))
          => LET old == lists[Main]
                 new == lists'[Main]
                 n == Len(old.items)
                 i == lastOp'.arg
             IN /\ lastOp'.err = "none"
                /\ Len(new.items) = i + 1
                /\ \A j \in (n + 1)..(i + 1) :
                      /\ heap'[new.items[j]].empty
                      /\ heap'[new.items[j]].fo = NoneObj
                      /\ \A k \in 1..(i + 1) : k # j => new.items[k] # new.items[j]
                /\ new.last_idx = old.last_idx
                /\ DOMAIN new.files_done = DOMAIN old.files_done
                /\ \A key \in DOMAIN old.files_done :
                      Content(heap', new.files_done[key]) = Content(heap, old.files_done[key])
                /\ \A j \in 1..n :
                      Content(heap', new.items[j]) = Content(heap, old.items[j])]_vars

\* an index read past the end of a list that holds a populated slot has
\* added two or more slots
C7_Witness ==
    /\ lastOp.op = "getitem"
    /\ lastOp.err = "none"
    /\ lastOp.len0 >= 1
    /\ lastOp.arg >= lastOp.len0 + 1
    /\ MainList.last_idx >= 0

\* C8: an index write to an Empty slot that a read created succeeds once: the
\* first write fills the slot, a later write to the same index fails and does
\* not replace what the slot holds.
C8_WriteOnce ==
    [][(lastOp'.op = "setitem" /\ lastOp'.arg < Len(lists[Main].items))
          => LET i == lastOp'.arg
                 was == lists[Main].items[i + 1]
                 is == lists'[Main].items[i + 1]
             IN IF heap[was].empty
                THEN lastOp'.err = "none" /\ ~heap'[is].empty
                ELSE lastOp'.err # "none" /\ Content(heap', is) = Content(heap, was)]_vars

\* C9: set_parent succeeds once: the first call attaches the task's future, a
\* later call fails and leaves the attached future, the slots and files_done
\* unchanged.
C9_SetParentOnce ==
    [][lastOp'.op = "set_parent"
          => IF lists[Main].parent = "None"
             THEN lastOp'.err = "none" /\ lists'[Main].parent = "T"
             ELSE lastOp'.err # "none" /\ lists'[Main] = lists[Main] /\ heap' = heap]_vars

\* the sub-lists made by range reads
Views == 2..Len(lists)

\* C10: after every completed operation on the list, every sub-list holds
\* the list's current slots in its range.
C10_ViewsCurrent ==
    lastOp.err = "none"
        => \A v \in Views : lists[v].items = PySlice(MainList.items, lists[v].slice)

\* the slots a list holds
Holds(ls, l) == {ls[l].items[j] : j \in 1..Len(ls[l].items)}

\* C11: a sub-list made with an open upper bound holds every element that is
\* appended to the list after it was made and lies in its range; a sub-list
\* made with both bounds fixed is never longer than it was when it was made.
C11_ViewGrowth ==
    [][/\ (lastOp'.op = "append" /\ lastOp'.err = "none")
            => \A v \in 2..Len(lists) :
                  LET at == lists'[Main].last_idx IN
                  (lists[v].slice.stop = PyNone
                     /\ at >= (IF lists[v].slice.start = PyNone THEN 0 ELSE lists[v].slice.start))
                      => lists'[Main].items[at + 1] \in Holds(lists', v)
       /\ \A v \in 2..Len(lists') :
             (lists'[v].slice.start # PyNone /\ lists'[v].slice.stop # PyNone)
                 => Len(lists'[v].items) <= created'[v - 1]]_vars

\* C12: insert(index, value) with index above _last_idx fails and leaves the
\* list as it was; with 0 <= index <= _last_idx it succeeds, the slot at index
\* holds value, the slots that were at index and after it are one place to
\* the right, and _last_idx is one more.
C12_Insert ==
    \A i \in Indices, obj \in UserObjs, so \in BOOLEAN :
        LET old == MainList
            Right(r) ==
                LET new == r.lists[Main] IN
                IF i > old.last_idx
                THEN Failed(r) /\ r.heap = heap /\ r.lists = lists
                ELSE /\ ~Failed(r)
                     /\ Len(new.items) = Len(old.items) + 1
                     /\ ~r.heap[new.items[i + 1]].empty
                     /\ r.heap[new.items[i + 1]].fo.k \in {"File", "DF"}
                     /\ r.heap[new.items[i + 1]].fo.name = obj.name
                     /\ \A j \in 1..Len(old.items) :
                           new.items[IF j <= i THEN j ELSE j + 1] = old.items[j]
                     /\ \A id \in 1..Len(heap) : r.heap[id] = heap[id]
                     /\ new.last_idx = old.last_idx + 1
        IN Right(InsertOp(State(so), Main, i, obj))

\* C13: when the producing task attached to the list has failed with E,
\* every slot of the list (the DynamicFile, itself a future) and every
\* sub-list of it has resolved with E, and none has resolved successfully.
\* It is stated for lists whose slots all wrap DataFutures of the task.
C13_FailureReachesAll ==
    (MainList.parent = "T" /\ task = "err" /\ \A i \in Positions : SlotAt(i).is_df)
        => /\ \A i \in Positions : SlotAt(i).fstate = "err"
           /\ \A v \in Views : lists[v].fstate = "err"

\* the DataFutures the list holds
DataFutureCells == {id \in 1..Len(heap) : heap[id].fo.k = "DF"}

\* every DataFuture of the list and, with the task attached, the list itself
\* has resolved
AllResolved ==
    /\ \A id \in DataFutureCells : heap[id].fo.st # "pending"
    /\ MainList.parent = "T" => MainList.fstate # "pending"

\* C14: however the task's completion callbacks interleave with append and
\* set_parent, every DataFuture chained to the task and the list itself
\* resolve, once, with the task's outcome: none is resolved before the task
\* or with another outcome, one that has resolved stays as it is, one that is
\* made after the task resolved is resolved at once, and once the task has
\* resolved all of them come to be resolved.
C14_ResolveOnce ==
    /\ [](\A id \in DataFutureCells : heap[id].fo.st \in {"pending", task})
    /\ [](MainList.fstate # "pending" => (MainList.parent = "T" /\ MainList.fstate = task))
    /\ [][\A id \in DataFutureCells :
             heap[id].fo.st # "pending" => heap'[id].fo.st = heap[id].fo.st]_vars
    /\ [][lists[Main].fstate # "pending" => lists'[Main].fstate = lists[Main].fstate]_vars
    /\ [][(lastOp'.op = "set_parent" /\ lists[Main].parent = "None" /\ task # "pending")
             => lists'[Main].fstate = task]_vars
    /\ [][(lastOp'.op = "append" /\ lastOp'.err = "none" /\ task # "pending")
             => LET new == heap'[lists'[Main].items[lists'[Main].last_idx + 1]] IN
                new.fo.k = "DF" => new.fo.st = task]_vars
    /\ (task # "pending") ~> AllResolved

\* the task has failed, the list was attached to it afterwards, and a
\* DataFuture that was pending when the task failed has been resolved
C14_Witness ==
    /\ task = "err"
    /\ lastOp.op = "invoke"
    /\ lastOp.arg > 0
    /\ MainList.parent = "T"
    /\ MainList.fstate = "err"
    /\ AllResolved
    /\ Len(MainList.items) >= 2
    /\ \A i \in Positions : SlotAt(i).is_df

\* C15: once stage_out has answered with a stage-out future for a slot, the
\* slot's DataFuture waits for that future: the producing task's completion
\* does not resolve it.  No step here resolves a stage-out future, so a
\* DataFuture that waits for one stays pending.
C15_WaitsForStageOut ==
    [][\A i \in 1..Len(lists[Main].items) :
          LET was == heap[lists[Main].items[i]].fo
              is == heap'[lists'[Main].items[i]].fo
          IN (was.k = "DF" /\ was.par = "SO" /\ was.st = "pending")
                => is.st = "pending"]_vars

\* the File or DataFuture a slot holds in the end, through the wrappers it
\* may hold
RECURSIVE Innermost(_, _)
Innermost(h, id) == IF h[id].fo.k = "Dyn" THEN Innermost(h, h[id].fo.ref) ELSE h[id].fo

\* batches of two and of three values
LongBatches == Batches \cup {<<UserDataFuture("a"), UserDataFuture("b"), FileObj("a")>>}

\* C16: extend(items) on a list with k Empty placeholders after _last_idx = h
\* puts items[j] at index h + 1 + j, every index with a slot of its own, makes
\* the list longer only when len(items) > k, and adds len(items) to _last_idx.
\* It is stated for lists with no task attached.
C16_ExtendFills ==
    MainList.parent = "None"
        => \A its \in LongBatches :
              LET old == MainList
                  h == old.last_idx
                  k == Len(old.items) - 1 - h
                  n == Len(its)
                  Right(r) ==
                      LET new == r.lists[Main] IN
                      /\ ~Failed(r)
                      /\ Len(new.items) = Len(old.items) + (IF n > k THEN n - k ELSE 0)
                      /\ new.last_idx = h + n
                      /\ \A j \in 1..n :
                            /\ ~r.heap[new.items[h + 1 + j]].empty
                            /\ Innermost(r.heap, new.items[h + 1 + j]) = its[j]
                            /\ \A p \in 1..Len(new.items) :
                                  p # h + 1 + j => new.items[p] # new.items[h + 1 + j]
              IN (h + 1 + n <= MaxLen) => Right(Extend(State(FALSE), Main, its))

\* the list cut after _last_idx: the same list without its placeholders
WithoutPlaceholders(s) ==
    [s EXCEPT !.lists[Main].items = SubSeq(@, 1, s.lists[Main].last_idx + 1)]

\* what is seen of a slot: Empty or not, wrapping a DataFuture or not, what it
\* holds in the end, and its done()
SlotState(h, id) ==
    [empty |-> h[id].empty, is_df |-> h[id].is_df, holds |-> Innermost(h, id),
     done |-> DynDone(h, id)]

\* C17: an append that fills the Empty placeholder at _last_idx + 1 leaves the
\* length as it is and leaves the slot in the state that the same append
\* gives on the list without placeholders: wrapping the value, and with a
\* DataFuture of a pending task not done.
C17_AppendFillsPlaceholder ==
    LET h == MainList.last_idx IN
    (/\ h >= -1
     /\ Len(MainList.items) > h + 1
     /\ heap[MainList.items[h + 2]].empty
     /\ heap[MainList.items[h + 2]].fo = NoneObj)
        => \A obj \in UserObjs :
              LET Same(r, ref) ==
                      /\ Failed(r) = Failed(ref)
                      /\ ~Failed(r)
                           => /\ Len(r.lists[Main].items) = Len(MainList.items)
                              /\ SlotState(r.heap, r.lists[Main].items[h + 2])
                                   = SlotState(ref.heap, ref.lists[Main].items[h + 2])
                      /\ ~Failed(r) /\ obj.k = "DF"
                           => (DynDone(r.heap, r.lists[Main].items[h + 2])
                                  <=> obj.st # "pending")
              IN Same(AppendOp(Now, Main, obj), AppendOp(WithoutPlaceholders(Now), Main, obj))

\* C18: with the dataflow and the task attached and staging not inhibited,
\* append(value) succeeds and has had stage_out invoked for the slot at the
\* new _last_idx when it returns, whether that slot is new or was an Empty
\* placeholder.
C18_AppendStages ==
    LET h == MainList.last_idx IN
    (/\ MainList.parent = "T"
     /\ MainList.dataflow
     /\ ~MainList.inhibited
     /\ h >= -1
     /\ Len(MainList.items) > h + 1 => heap[MainList.items[h + 2]].fo = NoneObj)
        => \A obj \in UserObjs, so \in BOOLEAN :
              LET Staged(r) ==
                      /\ ~Failed(r)
                      /\ r.lists[Main].last_idx = h + 1
                      /\ r.heap[r.lists[Main].items[h + 2]].stageN = 1
              IN Staged(AppendOp(State(so), Main, obj))

\* the length a range read is to give the list
SliceBound(len, sl) ==
    Max(Max(len, IF sl.start # PyNone /\ sl.start >= len THEN sl.start + 1 ELSE 0),
        IF sl.stop # PyNone THEN sl.stop ELSE 0)

\* C19: a range read whose bound is past the end makes the list as long as
\* the bound by adding Empty placeholders, leaves _last_idx and the Empty or
\* non-Empty state of every slot that was there unchanged, and registers the
\* sub-list it returns among the list's callbacks.
C19_RangeReadFrame ==
    \A sl \in Slices :
        LET old == MainList
            n == Len(old.items)
            Grown(r) ==
                LET new == r.lists[Main] IN
                /\ ~Failed(r)
                /\ Len(new.items) = SliceBound(n, sl)
                /\ \A j \in (n + 1)..Len(new.items) : r.heap[new.items[j]].empty
                /\ new.last_idx = old.last_idx
                /\ \A j \in 1..n : r.heap[new.items[j]].empty = heap[old.items[j]].empty
                /\ Len(r.lists) = Len(lists) + 1
                /\ new.sub_callbacks = Append(old.sub_callbacks, Len(r.lists))
        IN SliceBound(n, sl) > n => Grown(GetSlice(Now, Main, sl))

\* the state in which stage_file(idx) is to stage: dataflow and task
\* attached, staging not inhibited, and at idx a slot that is not Empty and
\* wraps a DataFuture
Eligible(idx) ==
    /\ MainList.dataflow
    /\ MainList.parent = "T"
    /\ ~MainList.inhibited
    /\ idx < Len(MainList.items)
    /\ ~SlotAt(idx).empty
    /\ SlotAt(idx).is_df

\* C20: stage_file(idx) invokes stage_out and replace_task_stage_out only
\* for the slot at idx and only when the dataflow and the task are attached,
\* staging is not inhibited and the slot is not Empty and wraps a DataFuture;
\* in every other state it invokes neither and leaves every slot's file
\* object and future as they were.
C20_StagesOnlyWhenEligible ==
    \A idx \in Indices, so \in BOOLEAN :
        LET Only(r) ==
                /\ ~Failed(r)
                /\ \A id \in 1..Len(heap) :
                      /\ r.heap[id].stageN # heap[id].stageN
                           => Eligible(idx) /\ id = MainList.items[idx + 1]
                      /\ ~Eligible(idx) => r.heap[id] = heap[id]
                /\ \A id \in (Len(heap) + 1)..Len(r.heap) :
                      r.heap[id].stageN = 0 /\ r.heap[id].empty
        IN Only(StageFile(State(so), Main, idx))

\* set_dataflow has just staged a slot of a list that also holds a slot
\* stage_file is to leave alone
C20_Witness ==
    /\ lastOp.op = "set_dataflow"
    /\ ~MainList.inhibited
    /\ \E i \in Positions : Eligible(i) /\ SlotAt(i).stageN = 1
    /\ \E i \in Positions : ~Eligible(i) /\ SlotAt(i).stageN = 0

\* C21: a slot stage_file has staged (stage_out was called for it) answers
\* staged with True from then on.
C21_StagedIsSet == \A id \in 1..Len(heap) : heap[id].stageN >= 1 => heap[id].staged

\* C22: pop(i) with 0 <= i <= _last_idx removes the slot at i, returns the
\* File or DataFuture it wraps, takes 1 from _last_idx and removes the done
\* method of that slot, and of no other, from files_done; pop() removes the
\* slot at _last_idx and never an Empty placeholder after it; pop(i) with
\* i > _last_idx raises IndexError and leaves the list as it was.
C22_Pop ==
    \A i \in {-1} \cup Indices :
        LET L == MainList
            at == IF i = -1 THEN L.last_idx ELSE i
            Right(r) ==
                IF i # -1 /\ i > L.last_idx
                THEN r.err = "IndexError" /\ r.lists = lists /\ r.heap = heap
                ELSE IF at < 0 \/ at >= Len(L.items)
                THEN r.lists[Main].items = L.items
                ELSE LET id == L.items[at + 1] IN
                     /\ r.err = "none"
                     /\ r.lists[Main].items = PyPop(L.items, at)
                     /\ r.ret = Innermost(heap, id)
                     /\ r.lists[Main].last_idx = L.last_idx - 1
                     /\ \A key \in DOMAIN r.lists[Main].files_done :
                           r.lists[Main].files_done[key] # id
                     /\ \A key \in DOMAIN L.files_done :
                           L.files_done[key] # id
                           => /\ key \in DOMAIN r.lists[Main].files_done
                              /\ r.lists[Main].files_done[key] = L.files_done[key]
        IN Right(PopOp(Now, Main, i))

\* C23: on a list without a parent, set_parent returns without raising,
\* every slot that was Empty is still Empty and every other slot wraps a
\* DataFuture.
C23_SetParentCompletes ==
    \A so \in BOOLEAN :
        MainList.parent = "None"
        => LET Right(r) ==
                   /\ r.err = "none"
                   /\ \A i \in Positions :
                         LET id == MainList.items[i + 1] IN
                         IF heap[id].empty THEN r.heap[id].empty ELSE r.heap[id].is_df
           IN Right(SetParent(State(so), Main))

\* C24: between two calls no dispatch is in progress, and _in_callback is
\* False on the list and on every sub-list, so that the next change of the
\* list is dispatched to the sub-lists.
C24_GuardReleased == \A l \in 1..Len(lists) : ~lists[l].in_callback

\* C25: an indexed write to a slot that is not Empty, when it raises, leaves
\* the slots, _last_idx and files_done as they were, and done() answers what
\* it answered before.
C25_FailedWriteFrame ==
    \A key \in Positions, value \in UserObjs, so \in BOOLEAN :
        ~SlotAt(key).empty
        => LET Same(r) ==
                   Failed(r) => /\ r.heap = heap
                                /\ r.lists = lists
                                /\ ListDone(r, Main) = ListDone(Now, Main)
           IN Same(SetItemOp(State(so), Main, key, value))

\* C26: when the list's done() answers True, the done() of every slot of
\* the list that is not Empty answers True.
C26_DoneCoversSlots ==
    ListDone(Now, Main)
    => \A i \in Positions : ~SlotAt(i).empty => DynDone(heap, MainList.items[i + 1])

====
